---- MODULE Spec2Model ----
(***************************************************************************)
(* Model of the streaming planner of poc/backend/main.py:                  *)
(*   - generate_task_node / should_continue: the one-node LangGraph loop   *)
(*     that asks the LLM oracle for the next task,                         *)
(*   - task_stream_generator: the async generator that pulls the graph's   *)
(*     state values and writes the reveal frames and the status frame.     *)
(* A Task is modelled by its id and description (title and tags are        *)
(* copied unchanged into every frame and are left out).  A description is  *)
(* a sequence of characters; character k of a text is the number k.        *)
(* A second part models verify_access_code of api/v1/endpoints/auth.py:    *)
(* concurrent requests, each with its own database session, redeeming      *)
(* access codes.                                                           *)
(***************************************************************************)
EXTENDS Integers, Sequences, FiniteSets

VARIABLES
    state,          \* AgentState held by the graph: [tasks, finished]
    gpc,            \* what astream does when it is next resumed
    state_change,   \* the value the async-for loop last received
    pc,             \* where task_stream_generator is suspended
    num_tasks_sent, \* local of task_stream_generator
    i,              \* index of the task being revealed
    j,              \* offset of the chunk loop
    stream,         \* the frames handed to the consumer, in order
    oracleLog,      \* outcome of each structured_llm.invoke call, in order
    exc,            \* exception in flight inside task_stream_generator
    cancelled,      \* the client has disconnected
    oracle_text,    \* the description the oracle writes in this run
    oracle_omits_id, \* whether the oracle leaves the task id empty in this run
    access_codes,   \* table access_codes: code -> [is_used, used_by_id]
    has_access,     \* column users.has_access, by user id
    req,            \* the verify_access_code requests
    granted         \* the <<user, code>> pairs of "Access granted" commits

accessVars == <<access_codes, has_access, req, granted>>

planVars == <<state, gpc, state_change, pc, num_tasks_sent, i, j, stream,
              oracleLog, exc, cancelled, oracle_text, oracle_omits_id>>

vars == <<planVars, accessVars>>

\* Longest description the oracle returns.
MaxDescLen == 5

\* The cap of should_continue.
maxTasks == 10

chunk_size == 4

\* Concurrent verify_access_code requests.
MaxRequests == 3

\* Rows of the users table.
NumUsers == 2

Users == 1..NumUsers

Requests == 1..MaxRequests

\* The codes a payload can carry.
CodeStrings == {"A", "B"}

\* used_by_id of a fresh row
NoUser == 0

Min(a, b) == IF a < b THEN a ELSE b

Ceil(a, b) == (a + b - 1) \div b

Text(L) == [k \in 1..L |-> k]

IsPrefix(s, t) == Len(s) <= Len(t) /\ SubSeq(t, 1, Len(s)) = s

IsStrictPrefix(s, t) == IsPrefix(s, t) /\ Len(s) < Len(t)

\* ---------------------------------------------------------------------
\* The oracle: structured_llm.invoke returns a TaskGeneration or raises.
\* An Optional[Task] is a sequence of length 0 (None) or 1.  An id is a
\* tuple: <<>> is the empty string, <<"llm", n>> the id the oracle gives
\* on call n, <<"uuid", n>> the n-th value drawn from uuid4.
\* ---------------------------------------------------------------------
OracleId == IF oracle_omits_id THEN <<>> ELSE <<"llm", Len(oracleLog) + 1>>

OracleTasks == {[id |-> OracleId, description |-> oracle_text]}

OracleResults ==
    {[raises |-> TRUE, is_finished |-> FALSE, task |-> <<>>]}
    \cup {[raises |-> FALSE, is_finished |-> f, task |-> <<>>] : f \in BOOLEAN}
    \cup {[raises |-> FALSE, is_finished |-> f, task |-> <<t>>] :
              f \in BOOLEAN, t \in OracleTasks}

\* How the spec classifies an oracle result.
Outcome(r) ==
    IF r.raises THEN "raise"
    ELSE IF r.is_finished THEN "finished"
    ELSE IF r.task # <<>> THEN "task"
    ELSE "malformed"

uuid4(n) == <<"uuid", n>>

\* if not result.task.id: result.task.id = str(uuid.uuid4())
EnsureId(t, n) == IF t.id = <<>> THEN [t EXCEPT !.id = uuid4(n)] ELSE t

generate_task_node_overwrites(st, r) ==
    IF r.raises THEN [st EXCEPT !.finished = TRUE]
    ELSE IF r.is_finished THEN [st EXCEPT !.finished = TRUE]
    ELSE IF r.task # <<>>
         THEN [tasks |-> <<EnsureId(r.task[1], Len(st.tasks) + 1)>>,
               finished |-> FALSE]
         ELSE [st EXCEPT !.finished = TRUE]

generate_task_node_task_first(st, r) ==
    IF r.raises THEN [st EXCEPT !.finished = TRUE]
    ELSE IF r.task # <<>>
         THEN [tasks |-> Append(st.tasks,
                                EnsureId(r.task[1], Len(st.tasks) + 1)),
               finished |-> r.is_finished]
         ELSE [st EXCEPT !.finished = TRUE]

generate_task_node(st, r) ==
    IF r.raises THEN [st EXCEPT !.finished = TRUE]
    ELSE IF r.is_finished THEN [st EXCEPT !.finished = TRUE]
    ELSE IF r.task # <<>>
         THEN [tasks |-> Append(st.tasks,
                                EnsureId(r.task[1], Len(st.tasks) + 1)),
               finished |-> FALSE]
         ELSE [st EXCEPT !.finished = TRUE]

should_continue_off_by_one(st) ==
    IF st.finished THEN "END"
    ELSE IF Len(st.tasks) > maxTasks THEN "END"
    ELSE "planner"

should_continue_ignores_finished(st) ==
    IF Len(st.tasks) >= maxTasks THEN "END" ELSE "planner"

should_continue(st) ==
    IF st.finished THEN "END"
    ELSE IF Len(st.tasks) >= maxTasks THEN "END"
    ELSE "planner"

\* ---------------------------------------------------------------------
\* Frames
\* ---------------------------------------------------------------------
TaskFrame(k, t, d, part) ==
    [shape |-> "task", idx |-> k, id |-> t.id, description |-> d,
     part |-> part, status |-> ""]

StatusFrame(s) ==
    [shape |-> "status", idx |-> 0, id |-> <<>>, description |-> <<>>,
     part |-> "", status |-> s]

PartialDesc_chunk_only(full_description, off) ==
    SubSeq(full_description, off + 1,
           Min(off + chunk_size, Len(full_description)))

\* full_description[:j+chunk_size]
PartialDesc(full_description, off) ==
    SubSeq(full_description, 1, Min(off + chunk_size, Len(full_description)))

HasChunk_skip_last(off, full_description) ==
    off + chunk_size < Len(full_description)

\* range(0, len(full_description), chunk_size) still has the offset off
HasChunk(off, full_description) == off < Len(full_description)

except_BaseException(e) ==
    e \in {"Exception", "CancelledError", "GeneratorExit"}

\* "except Exception": CancelledError and GeneratorExit are BaseExceptions
except_Exception(e) == e = "Exception"

Suspended == {"next", "yield_initial", "yield_partial", "sleep",
              "yield_final", "yield_completed", "yield_error"}

InReveal == {"yield_initial", "yield_partial", "sleep", "yield_final"}

AnextEager == pc \in {"next"} \cup InReveal

\* astream is an async generator: the graph advances only while the
\* consumer awaits its next value
AnextAwaited == pc = "next"

NumSent_stale(current_tasks) == num_tasks_sent

\* num_tasks_sent = len(current_tasks)
NumSent(current_tasks) == Len(current_tasks)

\* ---------------------------------------------------------------------
\* task_stream_generator, from one suspension point to the next
\* ---------------------------------------------------------------------
Yield(f, at) == stream' = Append(stream, f) /\ pc' = at

\* lines 172-178
BeginTask(sc, k) ==
    /\ i' = k
    /\ j' = 0
    /\ Yield(TaskFrame(k, sc.tasks[k + 1], <<>>, "initial"), "yield_initial")
    /\ UNCHANGED num_tasks_sent

\* lines 197-199, and back to the head of the async-for loop
CheckFinished(sc) ==
    IF sc.finished
    THEN Yield(StatusFrame("completed"), "yield_completed")
    ELSE pc' = "next" /\ stream' = stream

\* lines 168-171 on a freshly received state value
OnStateChange(sc) ==
    IF Len(sc.tasks) > num_tasks_sent
    THEN BeginTask(sc, num_tasks_sent)
    ELSE CheckFinished(sc) /\ UNCHANGED <<num_tasks_sent, i, j>>

\* lines 183-192: chunk at offset off, or the final frame
ChunkOrFinal(off) ==
    LET t == state_change.tasks[i + 1] IN
    /\ j' = off
    /\ IF HasChunk(off, t.description)
       THEN Yield(TaskFrame(i, t, PartialDesc(t.description, off), "partial"),
                  "yield_partial")
       ELSE Yield(TaskFrame(i, t, t.description, "final"), "yield_final")
    /\ UNCHANGED <<i, num_tasks_sent>>

Init ==
    /\ \E L \in 0..MaxDescLen : oracle_text = Text(L)
    /\ oracle_omits_id \in BOOLEAN
    /\ state = [tasks |-> <<>>, finished |-> FALSE]
    /\ gpc = "input"
    /\ state_change = [tasks |-> <<>>, finished |-> FALSE]
    /\ pc = "next"
    /\ num_tasks_sent = 0
    /\ i = 0
    /\ j = 0
    /\ stream = <<>>
    /\ oracleLog = <<>>
    /\ exc = "none"
    /\ cancelled = FALSE
    /\ access_codes = [c \in {} |-> [is_used |-> FALSE, used_by_id |-> NoUser]]
    /\ has_access = [u \in Users |-> FALSE]
    /\ req = [r \in Requests |->
                 [pc |-> "idle", user |-> 1, code |-> "A", resp |-> ""]]
    /\ granted = {}

\* stream_mode="values": the first value is the input state
AstreamInput ==
    /\ AnextAwaited
    /\ gpc = "input"
    /\ gpc' = "planner"
    /\ state_change' = state
    /\ OnStateChange(state)
    /\ UNCHANGED <<state, oracleLog, exc, cancelled, oracle_text,
                   oracle_omits_id, accessVars>>

\* one superstep: the planner node, the conditional edge, the new value
PlannerStep ==
    /\ AnextAwaited
    /\ gpc = "planner"
    /\ \E r \in OracleResults :
         LET st == generate_task_node(state, r) IN
         /\ state' = st
         /\ oracleLog' = Append(oracleLog, Outcome(r))
         /\ gpc' = should_continue(st)
         /\ state_change' = st
         /\ OnStateChange(st)
    /\ UNCHANGED <<exc, cancelled, oracle_text, oracle_omits_id,
                   accessVars>>

\* llm.with_structured_output (line 86) is outside the node's try block:
\* what it raises leaves astream and reaches the generator's handler
AstreamRaises ==
    /\ AnextAwaited
    /\ gpc = "planner"
    /\ gpc' = "END"
    /\ exc' = "Exception"
    /\ pc' = "raised"
    /\ UNCHANGED <<state, state_change, num_tasks_sent, i, j, stream,
                   oracleLog, cancelled, oracle_text, oracle_omits_id,
                   accessVars>>

\* the graph has ended: the async-for loop is exhausted
AstreamStop ==
    /\ AnextAwaited
    /\ gpc = "END"
    /\ pc' = "done"
    /\ UNCHANGED <<state, gpc, state_change, num_tasks_sent, i, j, stream,
                   oracleLog, exc, cancelled, oracle_text, oracle_omits_id,
                   accessVars>>

ResumeInitial ==
    /\ pc = "yield_initial"
    /\ ChunkOrFinal(0)
    /\ UNCHANGED <<state, gpc, state_change, oracleLog, exc, cancelled,
                   oracle_text, oracle_omits_id, accessVars>>

\* after the partial frame: await asyncio.sleep(0.01)
ResumePartial ==
    /\ pc = "yield_partial"
    /\ pc' = "sleep"
    /\ UNCHANGED <<state, gpc, state_change, num_tasks_sent, i, j, stream,
                   oracleLog, exc, cancelled, oracle_text, oracle_omits_id,
                   accessVars>>

ResumeSleep ==
    /\ pc = "sleep"
    /\ ChunkOrFinal(j + chunk_size)
    /\ UNCHANGED <<state, gpc, state_change, oracleLog, exc, cancelled,
                   oracle_text, oracle_omits_id, accessVars>>

ResumeFinal ==
    /\ pc = "yield_final"
    /\ IF i + 1 < Len(state_change.tasks)
       THEN BeginTask(state_change, i + 1)
       ELSE /\ num_tasks_sent' = NumSent(state_change.tasks)
            /\ CheckFinished(state_change)
            /\ UNCHANGED <<i, j>>
    /\ UNCHANGED <<state, gpc, state_change, oracleLog, exc, cancelled,
                   oracle_text, oracle_omits_id, accessVars>>

\* break
ResumeCompleted ==
    /\ pc = "yield_completed"
    /\ pc' = "done"
    /\ UNCHANGED <<state, gpc, state_change, num_tasks_sent, i, j, stream,
                   oracleLog, exc, cancelled, oracle_text, oracle_omits_id,
                   accessVars>>

ResumeError ==
    /\ pc = "yield_error"
    /\ pc' = "done"
    /\ UNCHANGED <<state, gpc, state_change, num_tasks_sent, i, j, stream,
                   oracleLog, exc, cancelled, oracle_text, oracle_omits_id,
                   accessVars>>

\* lines 201-203
Handler ==
    /\ pc = "raised"
    /\ IF except_Exception(exc)
       THEN Yield(StatusFrame("error"), "yield_error")
       ELSE pc' = "done" /\ stream' = stream
    /\ exc' = "none"
    /\ UNCHANGED <<state, gpc, state_change, num_tasks_sent, i, j,
                   oracleLog, cancelled, oracle_text, oracle_omits_id,
                   accessVars>>

\* The client disconnects while the generator is suspended: the await is
\* cancelled (CancelledError) or the generator is closed at its yield
\* (GeneratorExit).  The yield at line 203 is outside the try block.
Cancel ==
    /\ pc \in Suspended
    /\ ~cancelled
    /\ cancelled' = TRUE
    /\ IF pc = "yield_error"
       THEN pc' = "done" /\ exc' = exc
       ELSE /\ pc' = "raised"
            /\ exc' = IF pc \in {"next", "sleep"} THEN "CancelledError"
                      ELSE "GeneratorExit"
    /\ UNCHANGED <<state, gpc, state_change, num_tasks_sent, i, j, stream,
                   oracleLog, oracle_text, oracle_omits_id, accessVars>>

Next ==
    \/ AstreamInput
    \/ PlannerStep
    \/ AstreamRaises
    \/ AstreamStop
    \/ ResumeInitial
    \/ ResumePartial
    \/ ResumeSleep
    \/ ResumeFinal
    \/ ResumeCompleted
    \/ ResumeError
    \/ Handler
    \/ Cancel

Spec == Init /\ [][Next]_vars

\* ---------------------------------------------------------------------
\* verify_access_code and create_access_code.  Every request has its own
\* session; a request is suspended at "await db.execute" (pc = "select")
\* and at "await db.commit" (pc = "commit").  The commit flushes the
\* attributes the handler has set as UPDATEs by primary key.
\* ---------------------------------------------------------------------
Respond(r, msg) == req' = [req EXCEPT ![r].pc = "done", ![r].resp = msg]

\* create_access_code: the row is inserted unless the code exists
CreateAccessCode ==
    /\ \E c \in CodeStrings :
         /\ c \notin DOMAIN access_codes
         /\ access_codes' =
                [d \in DOMAIN access_codes \cup {c} |->
                    IF d = c THEN [is_used |-> FALSE, used_by_id |-> NoUser]
                    ELSE access_codes[d]]
    /\ UNCHANGED <<has_access, req, granted, planVars>>

\* the request arrives: current_user is loaded, line 193 is evaluated
VerifyBegin ==
    /\ \E r \in Requests, u \in Users, c \in CodeStrings :
         /\ req[r].pc = "idle"
         /\ IF has_access[u]
            THEN req' = [req EXCEPT ![r] =
                            [pc |-> "done", user |-> u, code |-> c,
                             resp |-> "Already has access"]]
            ELSE req' = [req EXCEPT ![r] =
                            [pc |-> "select", user |-> u, code |-> c,
                             resp |-> ""]]
    /\ UNCHANGED <<access_codes, has_access, granted, planVars>>

\* lines 196-210: the SELECT returns, the checks run, the attributes are
\* set in the session
VerifySelect ==
    /\ \E r \in Requests :
         /\ req[r].pc = "select"
         /\ IF req[r].code \notin DOMAIN access_codes
            THEN Respond(r, "Invalid access code")
            ELSE IF access_codes[req[r].code].is_used
            THEN Respond(r, "Access code already used")
            ELSE req' = [req EXCEPT ![r].pc = "commit"]
    /\ UNCHANGED <<access_codes, has_access, granted, planVars>>

\* lines 212-213
VerifyCommit ==
    /\ \E r \in Requests :
         /\ req[r].pc = "commit"
         /\ access_codes' =
                [access_codes EXCEPT ![req[r].code] =
                    [is_used |-> TRUE, used_by_id |-> req[r].user]]
         /\ has_access' = [has_access EXCEPT ![req[r].user] = TRUE]
         /\ granted' = granted \cup {<<req[r].user, req[r].code>>}
         /\ Respond(r, "Access granted")
    /\ UNCHANGED planVars

AccessNext ==
    \/ CreateAccessCode
    \/ VerifyBegin
    \/ VerifySelect
    \/ VerifyCommit

AccessInit ==
    /\ Init
    /\ oracle_text = <<>>
    /\ oracle_omits_id = FALSE

SpecAccess == AccessInit /\ [][AccessNext]_vars

\* ---------------------------------------------------------------------
\* Reading the stream
\* ---------------------------------------------------------------------
Last(s) == s[Len(s)]

StatusPositions == {p \in 1..Len(stream) : stream[p].shape = "status"}

TaskPositions == {p \in 1..Len(stream) : stream[p].shape = "task"}

FramesOfTask(k) == {p \in TaskPositions : stream[p].idx = k}

FinalsOfTask(k) == {p \in FramesOfTask(k) : stream[p].part = "final"}

FullyRevealed(k) == FinalsOfTask(k) # {}

TaskIndexes == {k \in 0..maxTasks : k < Len(state.tasks)}

\* the generator has returned and the client was there to the end
Terminated == pc = "done" /\ ~cancelled

AllCallsReturnedTask == \A n \in 1..Len(oracleLog) : oracleLog[n] = "task"

\* C1: a run that is not cancelled ends with exactly one status frame,
\* which is the last frame of the stream.
C1_ExactlyOneStatusFrameLast ==
    Terminated => StatusPositions = {Len(stream)}

\* C2: when the oracle returns a task on each of its maxTasks calls, the
\* run ends with maxTasks tasks and the stream ends with "completed".
C2_CappedRunEndsCompleted ==
    (Terminated /\ Len(oracleLog) = maxTasks /\ AllCallsReturnedTask)
        => /\ Len(state.tasks) = maxTasks
           /\ \A k \in TaskIndexes : FullyRevealed(k)
           /\ stream # <<>>
           /\ Last(stream) = StatusFrame("completed")

\* C3: when oracle call k raises after k-1 tasks, the stream is the
\* complete reveals of those k-1 tasks followed by one "error" frame; no
\* "completed" frame and no frame of a k-th task appears.
C3_OracleRaiseEndsWithError ==
    (Terminated /\ oracleLog # <<>> /\ Last(oracleLog) = "raise")
        => /\ Len(state.tasks) = Len(oracleLog) - 1
           /\ \A k \in TaskIndexes : Cardinality(FinalsOfTask(k)) = 1
           /\ \A p \in TaskPositions : stream[p].idx < Len(state.tasks)
           /\ StatusPositions = {Len(stream)}
           /\ Last(stream) = StatusFrame("error")

\* C4: a result that is neither a task nor a finish signal ends the run
\* with the "error" status frame, not "completed".
C4_MalformedEndsWithError ==
    (Terminated /\ oracleLog # <<>> /\ Last(oracleLog) = "malformed")
        => /\ stream # <<>>
           /\ Last(stream).status = "error"
           /\ \A p \in StatusPositions : stream[p].status # "completed"

DescLenOf(k) == Len(state.tasks[k + 1].description)

\* C5 as stated: a completed reveal of a description of length L has
\* ceil(L / chunk_size) + 1 task frames when L > 0, and 2 when L = 0.
C5_FrameCountAsStated ==
    \A k \in TaskIndexes :
        FullyRevealed(k) =>
            Cardinality(FramesOfTask(k)) =
                IF DescLenOf(k) > 0
                THEN Ceil(DescLenOf(k), chunk_size) + 1
                ELSE 2

\* C5 amended: a completed reveal has ceil(L / chunk_size) + 2 task
\* frames when L > 0 (the empty frame, one frame per chunk, the final
\* frame), and 2 when L = 0.
C5_FrameCount ==
    \A k \in TaskIndexes :
        FullyRevealed(k) =>
            Cardinality(FramesOfTask(k)) =
                IF DescLenOf(k) > 0
                THEN Ceil(DescLenOf(k), chunk_size) + 2
                ELSE 2

C5_Witness ==
    \E k \in TaskIndexes :
        /\ FullyRevealed(k)
        /\ DescLenOf(k) > chunk_size
        /\ Cardinality(FramesOfTask(k)) = 4

\* two neighbouring frames of the same task
SameReveal(p) ==
    /\ p \in TaskPositions
    /\ p + 1 \in TaskPositions
    /\ stream[p].idx = stream[p + 1].idx

FirstOfReveal(p) ==
    p \in TaskPositions /\ (p = 1 \/ ~SameReveal(p - 1))

EndsOfReveal ==
    /\ \A p \in TaskPositions :
           FirstOfReveal(p) => stream[p].description = <<>>
    /\ \A p \in TaskPositions :
           stream[p].part = "final" =>
               stream[p].description =
                   state.tasks[stream[p].idx + 1].description

\* C6 as stated: the first frame is empty, the final frame is full, and
\* each frame before the final one is a strict prefix of its successor.
C6_StrictPrefixAsStated ==
    /\ EndsOfReveal
    /\ \A p \in 1..Len(stream) :
           SameReveal(p) =>
               IsStrictPrefix(stream[p].description,
                              stream[p + 1].description)

\* C6 amended: the first frame is empty, the final frame is full, each
\* frame is a prefix of its successor, strictly shorter when the successor
\* is not the final frame; the final frame repeats the frame before it.
C6_PrefixOrder ==
    /\ EndsOfReveal
    /\ \A p \in 1..Len(stream) :
           SameReveal(p) =>
               /\ IsPrefix(stream[p].description, stream[p + 1].description)
               /\ stream[p + 1].part # "final" =>
                      Len(stream[p].description)
                          < Len(stream[p + 1].description)
               /\ stream[p + 1].part = "final" =>
                      stream[p].description = stream[p + 1].description

C6_Witness ==
    \E p \in TaskPositions :
        /\ stream[p].part = "final"
        /\ Len(stream[p].description) > chunk_size
        /\ stream[p - 1].part = "partial"
        /\ stream[p - 2].part = "partial"
        /\ stream[p - 3].part = "initial"

\* C7: once the client has disconnected, no frame is written (so no
\* status frame either) and no oracle call is made.
C7_SilentCancellation ==
    [][cancelled => (stream' = stream /\ oracleLog' = oracleLog)]_vars

\* cancelled in the middle of a reveal, and the generator has unwound
C7_Witness ==
    /\ cancelled
    /\ pc = "done"
    /\ stream # <<>>
    /\ Last(stream).shape = "task"
    /\ Last(stream).part \in {"initial", "partial"}
    /\ Len(state.tasks) >= 2

AllRevealed ==
    /\ num_tasks_sent = Len(state.tasks)
    /\ \A k \in TaskIndexes : Cardinality(FinalsOfTask(k)) = 1

\* C8: an oracle call begins only when every task returned so far has
\* been appended and completely revealed, and it appends at most one task.
C8_RevealBeforeNextCall ==
    [][oracleLog' # oracleLog =>
          /\ AllRevealed
          /\ Len(oracleLog') = Len(oracleLog) + 1
          /\ Len(state'.tasks) <= Len(state.tasks) + 1]_vars

C8_Witness ==
    /\ Len(oracleLog) = 3
    /\ Len(state.tasks) = 3
    /\ pc = "yield_partial"
    /\ FullyRevealed(0)
    /\ FullyRevealed(1)

\* C9: task frames appear in tasks order: no frame of an earlier task
\* follows a frame of a later one, and each frame belongs to the task at
\* its index.
C9_FifoFrames ==
    /\ \A p, q \in TaskPositions :
           p < q => stream[p].idx <= stream[q].idx
    /\ \A p \in TaskPositions :
           /\ stream[p].idx < Len(state.tasks)
           /\ stream[p].id = state.tasks[stream[p].idx + 1].id

C9_Witness ==
    /\ FullyRevealed(0)
    /\ FullyRevealed(1)
    /\ FullyRevealed(2)
    /\ DescLenOf(0) > 0

\* C10: tasks never exceeds maxTasks, and when the run has ended every
\* task of tasks has exactly one final frame and there are no others.
C10_BoundedAndRevealedOnce ==
    /\ Len(state.tasks) <= maxTasks
    /\ Terminated =>
           /\ \A k \in TaskIndexes : Cardinality(FinalsOfTask(k)) = 1
           /\ Cardinality({p \in TaskPositions : stream[p].part = "final"})
                  = Len(state.tasks)

C10_Witness ==
    /\ Terminated
    /\ Len(state.tasks) = maxTasks
    /\ Cardinality({p \in TaskPositions : stream[p].part = "final"}) = maxTasks

\* the conditional edge has sent the graph to END
LoopStopped == gpc = "END" /\ should_continue(state) = "END"

\* C11: when the planner loop has stopped (finish signal, cap or oracle
\* failure) finished is true; in particular when it stopped at the cap.
C11_StoppedLoopIsFinished ==
    LoopStopped => state.finished

\* C12: when the oracle signals "finished" on its first call, tasks is
\* empty and the stream of the finished run is the single frame
\* {"status": "completed"}.
C12_FinishedAtOnce ==
    (Terminated /\ oracleLog # <<>> /\ oracleLog[1] = "finished")
        => /\ state.tasks = <<>>
           /\ TaskPositions = {}
           /\ stream = <<StatusFrame("completed")>>

C12_Witness ==
    /\ Terminated
    /\ oracleLog = <<"finished">>
    /\ Len(stream) = 1

\* The event loop resumes a runnable coroutine, the consumer keeps pulling
\* until it disconnects, and every oracle call returns.
FairSpec == Spec /\ WF_vars(Next)

\* C13: whatever the oracle returns, the planner loop reaches a terminal
\* state (unless the client leaves first), and never makes more than
\* maxTasks oracle calls.
C13_LoopTerminates ==
    /\ <>(gpc = "END" \/ cancelled)
    /\ [](Len(oracleLog) <= maxTasks)

C13_Witness ==
    /\ LoopStopped
    /\ ~cancelled
    /\ Len(oracleLog) = maxTasks

\* C14: tasks only grows, by at most one record per step, and once
\* finished is true it stays true and no oracle call or append follows.
C14_AppendOnlyMonotonic ==
    [][/\ IsPrefix(state.tasks, state'.tasks)
       /\ Len(state'.tasks) <= Len(state.tasks) + 1
       /\ Len(state'.tasks) > Len(state.tasks) => oracleLog' # oracleLog
       /\ state.finished =>
              /\ state'.finished
              /\ state'.tasks = state.tasks
              /\ oracleLog' = oracleLog]_vars

C14_Witness ==
    /\ state.finished
    /\ Len(state.tasks) >= 2
    /\ pc = "done"

\* C15: in every run, cancelled ones included, the stream holds at most
\* one status frame (so never both "completed" and "error"), and nothing
\* follows it.
C15_AtMostOneStatusFrame ==
    /\ Cardinality(StatusPositions) <= 1
    /\ StatusPositions \subseteq {Len(stream)}

C15_Witness ==
    /\ cancelled
    /\ pc = "done"
    /\ stream # <<>>
    /\ Last(stream) = StatusFrame("completed")
    /\ Len(stream) > 1

GrantedThrough(c) == {u \in Users : <<u, c>> \in granted}

\* C16: an access code is single-use: at most one user is ever granted
\* access through it, whatever the interleaving of the requests.
C16_SingleUseCode ==
    \A c \in CodeStrings : Cardinality(GrantedThrough(c)) <= 1

\* is_used never returns from true to false
IsUsedMonotonic ==
    [][\A c \in DOMAIN access_codes :
           access_codes[c].is_used =>
               (c \in DOMAIN access_codes' /\ access_codes'[c].is_used)]_vars

\* a request that finds its code used is rejected and changes no user
RejectedLeavesUsers ==
    [][\A r \in Requests :
           (req[r].resp # req'[r].resp
                /\ req'[r].resp = "Access code already used")
               => has_access' = has_access]_vars

====
